---- MODULE Spec2Model ----
(***************************************************************************)
(* Monte Carlo simulator: Die, Game and Analyzer of                        *)
(* src/monte_carlo_simulator/die_game_analyzer.py.                         *)
(*                                                                         *)
(* A face is a record [kind, val]: kind "int" for a numeric face, kind     *)
(* "str" for a string face whose val is its rank in lexicographic order    *)
(* ("a" = 1, "b" = 2, ...).  A weight is a float, modelled as the record   *)
(* [nan, v]: v is the (integral) value, nan marks IEEE not-a-number, whose *)
(* comparisons are all false.                                              *)
(***************************************************************************)
EXTENDS Integers, Sequences, FiniteSets, TLC

VARIABLES
    dice,      \* Game.__dice: the sequence of Die objects, each its __df
    results,   \* Game.__results: None, or the table of the latest play
    analyzer,  \* Analyzer.results of the analyzer built last, None before
    lastN,     \* num_rolls of the latest play that returned, 0 before
    ret        \* what the latest call returned or raised

vars == <<dice, results, analyzer, lastN, ret>>

\* ------------------------------------------------------------------ bounds

\* The largest num_rolls a call is given.
MaxRolls == 2

\* The largest number of dice of a snapshot handed to the analyzer methods.
MaxDice == 3

\* ------------------------------------------------------------------ values

\* self.__results = None.  A stored table has one column per die and a game
\* holds at least one die, so the empty tuple is free to stand for None.
None == << >>

IntFace(n) == [kind |-> "int", val |-> n]

StrFace(n) == [kind |-> "str", val |-> n]

F(n) == [nan |-> FALSE, v |-> n]

NaN == [nan |-> TRUE, v |-> 0]

\* Python's a < b on floats: false whenever either side is nan.
FLt(a, b) == ~a.nan /\ ~b.nan /\ a.v < b.v

\* Python's a >= b on floats.
FGe(a, b) == ~a.nan /\ ~b.nan /\ a.v >= b.v

\* Python's a + b on floats.
FAdd(a, b) == IF a.nan \/ b.nan THEN NaN ELSE F(a.v + b.v)

\* An argument as the caller passes it: an int, a str, a float nan or None.
RawInt(n) == [t |-> "int", v |-> n, s |-> ""]

RawStr(s) == [t |-> "str", v |-> 0, s |-> s]

RawNaN == [t |-> "float", v |-> 0, s |-> "nan"]

RawNone == [t |-> "none", v |-> 0, s |-> ""]

\* float(new_weight): an int converts, a str is parsed, None is a TypeError.
ToFloat(raw) ==
    CASE raw.t = "int" -> [err |-> "", val |-> F(raw.v)]
      [] raw.t = "float" -> [err |-> "", val |-> NaN]
      [] raw.t = "str" ->
            CASE raw.s = "0" -> [err |-> "", val |-> F(0)]
              [] raw.s = "2" -> [err |-> "", val |-> F(2)]
              [] raw.s = "-1" -> [err |-> "", val |-> F(-1)]
              [] raw.s = "nan" -> [err |-> "", val |-> NaN]
              [] OTHER -> [err |-> "ValueError", val |-> NaN]
      [] OTHER -> [err |-> "TypeError", val |-> NaN]

\* What a call returned (ok) or raised (err), with the arguments it was given.
Ret(op, ok, err, arg, val) ==
    [op |-> op, ok |-> ok, err |-> err, arg |-> arg, val |-> val]

\* --------------------------------------------------------------------- Die

Elems(s) == {s[i] : i \in 1..Len(s)}

\* Die.__init__(faces): faces is [nd, items], nd telling a NumPy array from
\* any other sequence.
DieInit(faces) ==
    IF ~faces.nd
    THEN [ok |-> FALSE, err |-> "TypeError", die |-> [faces |-> << >>, weight |-> << >>]]
    ELSE IF Len(faces.items) # Cardinality(Elems(faces.items))
    THEN [ok |-> FALSE, err |-> "ValueError", die |-> [faces |-> << >>, weight |-> << >>]]
    ELSE [ok |-> TRUE, err |-> "",
          die |-> [faces |-> faces.items,
                   weight |-> [i \in 1..Len(faces.items) |-> F(1)]]]

\* The row of face in the die's index (face in self.__df.index holds).
FaceRow(die, face) == CHOOSE i \in 1..Len(die.faces) : die.faces[i] = face

\* self.__df.at[face, 'weight'] = new_weight: every face at once.
SetWeightAll(die, face, w) ==
    [die EXCEPT !.weight = [i \in 1..Len(die.faces) |-> w]]

\* self.__df.at[face, 'weight'] = new_weight
SetWeight(die, face, w) ==
    [die EXCEPT !.weight[FaceRow(die, face)] = w]

\* Die.change_weight(face, new_weight)
DieChangeWeight(die, face, new_weight) ==
    IF face \notin Elems(die.faces)
    THEN [ok |-> FALSE, err |-> "IndexError", die |-> die]
    ELSE LET f == ToFloat(new_weight) IN
         IF f.err # ""
         THEN [ok |-> FALSE, err |-> "TypeError", die |-> die]
         ELSE IF FLt(f.val, F(0))
         THEN [ok |-> FALSE, err |-> "ValueError", die |-> die]
         ELSE [ok |-> TRUE, err |-> "", die |-> SetWeight(die, face, f.val)]

\* sum(weights) over the first j weights; sum([]) is 0.
RECURSIVE SumTo(_, _)
SumTo(ws, j) == IF j = 0 THEN F(0) ELSE FAdd(SumTo(ws, j - 1), ws[j])

\* num_rolls is an int greater than 0.
ValidRolls(num_rolls) == num_rolls.t = "int" /\ num_rolls.v > 0

\* np.random.choice raises: nothing to draw from, or p = weights / sum(weights)
\* holds a nan (a nan weight, or 0 / 0 when every weight is 0).
ChoiceFails(die) ==
    \/ Len(die.faces) = 0
    \/ SumTo(die.weight, Len(die.weight)).nan
    \/ SumTo(die.weight, Len(die.weight)).v = 0

\* cdf.searchsorted(u, side='left'), see SearchSorted.
SearchSortedLeft(die, k) ==
    Cardinality({j \in 1..Len(die.weight) : SumTo(die.weight, j).v < k}) + 1

\* cdf.searchsorted(u, side='right') of np.random.choice: cdf is the running
\* sum of p and u is uniform on [0, 1).  With T = sum(weights), u lies in
\* [k/T, (k+1)/T) for one k in 0..T-1, and cdf[j] <= u iff SumTo(j) <= k.
SearchSorted(die, k) ==
    Cardinality({j \in 1..Len(die.weight) : SumTo(die.weight, j).v <= k}) + 1

\* The uniform samples one roll call may see: none when it raises first.
Draws(die, num_rolls) ==
    IF ~ValidRolls(num_rolls) \/ ChoiceFails(die)
    THEN {<< >>}
    ELSE [1..num_rolls.v -> 0..(SumTo(die.weight, Len(die.weight)).v - 1)]

\* Die.roll(num_rolls), us the uniform samples drawn.
DieRoll(die, num_rolls, us) ==
    IF ~ValidRolls(num_rolls)
    THEN [ok |-> FALSE, err |-> "ValueError", val |-> << >>]
    ELSE IF ChoiceFails(die)
    THEN [ok |-> FALSE, err |-> "ValueError", val |-> << >>]
    ELSE [ok |-> TRUE, err |-> "",
          val |-> [j \in 1..num_rolls.v |-> die.faces[SearchSorted(die, us[j])]]]

\* Die.show()
DieShow(die) == die

\* -------------------------------------------------------------------- Game

\* Game.__init__(dice_list): dice_list is [list, items], list telling a list
\* from any other object.
GameInit(dice_list) ==
    IF ~dice_list.list \/ Len(dice_list.items) = 0
    THEN [ok |-> FALSE, err |-> "ValueError", dice |-> << >>, results |-> None]
    ELSE [ok |-> TRUE, err |-> "", dice |-> dice_list.items, results |-> None]

\* for i, die in enumerate(self.__dice): rolls[i] = die.roll(num_rolls), from
\* die i on; the first roll that raises ends the loop.
RECURSIVE PlayLoop(_, _, _, _, _)
PlayLoop(ds, num_rolls, draws, i, rolls) ==
    IF i > Len(ds)
    THEN [ok |-> TRUE, err |-> "", rolls |-> rolls]
    ELSE LET r == DieRoll(ds[i], num_rolls, draws[i]) IN
         IF ~r.ok
         THEN [ok |-> FALSE, err |-> r.err, rolls |-> rolls]
         ELSE PlayLoop(ds, num_rolls, draws, i + 1, Append(rolls, r.val))

\* Game.play storing the columns rolled so far when a roll raises.
GamePlayPartial(ds, res, num_rolls, draws) ==
    IF ~ValidRolls(num_rolls)
    THEN [ok |-> FALSE, err |-> "ValueError", results |-> res]
    ELSE LET l == PlayLoop(ds, num_rolls, draws, 1, << >>) IN
         IF ~l.ok
         THEN [ok |-> FALSE, err |-> l.err, results |-> l.rolls]
         ELSE [ok |-> TRUE, err |-> "", results |-> l.rolls]

\* Game.play appending the new rolls to the rows of the previous table.
GamePlayAppend(ds, res, num_rolls, draws) ==
    IF ~ValidRolls(num_rolls)
    THEN [ok |-> FALSE, err |-> "ValueError", results |-> res]
    ELSE LET l == PlayLoop(ds, num_rolls, draws, 1, << >>) IN
         IF ~l.ok
         THEN [ok |-> FALSE, err |-> l.err, results |-> res]
         ELSE [ok |-> TRUE, err |-> "",
               results |-> IF res = None THEN l.rolls
                           ELSE [i \in 1..Len(ds) |-> res[i] \o l.rolls[i]]]

\* Game.play(num_rolls), draws[i] the uniform samples of die i.  The table is
\* kept as pd.DataFrame(rolls) holds it: one column per die, each the list of
\* that die's outcomes (row r of the code is position r + 1 here).
GamePlay(ds, res, num_rolls, draws) ==
    IF ~ValidRolls(num_rolls)
    THEN [ok |-> FALSE, err |-> "ValueError", results |-> res]
    ELSE LET l == PlayLoop(ds, num_rolls, draws, 1, << >>) IN
         IF ~l.ok
         THEN [ok |-> FALSE, err |-> l.err, results |-> res]
         ELSE [ok |-> TRUE, err |-> "", results |-> l.rolls]

\* The uniform samples one play call may see, die by die.
RECURSIVE PlayDraws(_, _, _)
PlayDraws(ds, num_rolls, i) ==
    IF i = 0 THEN {<< >>}
    ELSE {Append(p, u) : p \in PlayDraws(ds, num_rolls, i - 1),
                         u \in Draws(ds[i], num_rolls)}

NumRows(t) == Len(t[1])

\* One row of the table: the outcome of every die in roll r.
Row(t, r) == [i \in 1..Len(t) |-> t[i][r]]

\* self.__results.stack(): one entry per (roll, die), roll by roll and within
\* a roll die by die, keyed as the code keys them (from 0).
Stack(t) ==
    [m \in 1..(NumRows(t) * Len(t)) |->
        [roll |-> (m - 1) \div Len(t), die |-> (m - 1) % Len(t),
         outcome |-> t[((m - 1) % Len(t)) + 1][((m - 1) \div Len(t)) + 1]]]

\* Game.show without the test for a missing table.
GameShowUnchecked(res, form) ==
    IF form = "wide" THEN [ok |-> TRUE, err |-> "", val |-> res]
    ELSE IF form = "narrow"
    THEN [ok |-> TRUE, err |-> "", val |-> IF res = None THEN None ELSE Stack(res)]
    ELSE [ok |-> FALSE, err |-> "ValueError", val |-> None]

\* Game.show(form)
GameShow(res, form) ==
    IF res = None THEN [ok |-> FALSE, err |-> "ValueError", val |-> None]
    ELSE IF form = "wide" THEN [ok |-> TRUE, err |-> "", val |-> res]
    ELSE IF form = "narrow" THEN [ok |-> TRUE, err |-> "", val |-> Stack(res)]
    ELSE [ok |-> FALSE, err |-> "ValueError", val |-> None]

\* ---------------------------------------------------------------- Analyzer

\* Analyzer.__init__(game): isGame tells a Game from any other object, res is
\* the game's table.
AnalyzerInit(isGame, res) ==
    IF ~isGame THEN [ok |-> FALSE, err |-> "ValueError", results |-> None]
    ELSE LET s == GameShow(res, "wide") IN
         IF ~s.ok THEN [ok |-> FALSE, err |-> s.err, results |-> None]
         ELSE [ok |-> TRUE, err |-> "", results |-> s.val]

\* The analyzer methods reading the game's table afresh: self.game.show().
SelfGameResults == results

\* self.results, the table the analyzer methods read.
SelfResults == analyzer

\* Jackpot comparing the first die with the last one only.
JackpotEnds(t) ==
    Cardinality({r \in 1..NumRows(t) : t[1][r] = t[Len(t)][r]})

\* Analyzer.jackpot(): the rows whose set of outcomes has one element.
Jackpot(t) ==
    Cardinality({r \in 1..NumRows(t) : Cardinality(Elems(Row(t, r))) = 1})

\* self.results.values.ravel(): the cells row by row.
Ravel(t) ==
    [m \in 1..(NumRows(t) * Len(t)) |->
        t[((m - 1) % Len(t)) + 1][((m - 1) \div Len(t)) + 1]]

\* pd.unique(s) of the first j entries: the distinct values in order of first
\* appearance.
RECURSIVE UniqueTo(_, _)
UniqueTo(s, j) ==
    IF j = 0 THEN << >>
    ELSE LET u == UniqueTo(s, j - 1) IN
         IF s[j] \in Elems(u) THEN u ELSE Append(u, s[j])

\* The columns taken from the first roll alone.
UniqueFacesFirstRow(t) == UniqueTo(Row(t, 1), Len(t))

\* unique_faces = pd.unique(self.results.values.ravel())
UniqueFaces(t) == UniqueTo(Ravel(t), NumRows(t) * Len(t))

\* pd.Series(s).value_counts(): each distinct value with its number of
\* occurrences (the order of the entries is not part of the model).
ValueCounts(s) ==
    [k \in Elems(s) |-> Cardinality({i \in 1..Len(s) : s[i] = k})]

\* counts.reindex(unique_faces, fill_value=0)
Reindex(counts, unique_faces) ==
    [j \in 1..Len(unique_faces) |->
        IF unique_faces[j] \in DOMAIN counts THEN counts[unique_faces[j]] ELSE 0]

\* Analyzer.face_counts_per_roll(): the columns and, roll by roll, the counts.
FaceCountsPerRoll(t) ==
    [columns |-> UniqueFaces(t),
     rows |-> [r \in 1..NumRows(t) |->
                  Reindex(ValueCounts(Row(t, r)), UniqueFaces(t))]]

\* sorted(row) compares outcomes with <, which Python defines between two
\* numbers and between two strings and not between a number and a string.
Unorderable(row) ==
    \E i, j \in 1..Len(row) : row[i].kind # row[j].kind

\* sorted(s) of the first j entries, by insertion.
RECURSIVE SortedTo(_, _)
SortedTo(s, j) ==
    IF j = 0 THEN << >>
    ELSE LET u == SortedTo(s, j - 1)
             k == Cardinality({i \in 1..Len(u) : u[i].val <= s[j].val})
         IN  SubSeq(u, 1, k) \o <<s[j]>> \o SubSeq(u, k + 1, Len(u))

\* The key built from the distinct outcomes of the roll.
ComboKeyDistinct(row) == SortedTo(UniqueTo(row, Len(row)), Len(UniqueTo(row, Len(row))))

\* tuple(sorted(row))
ComboKey(row) == SortedTo(row, Len(row))

\* Analyzer.combo_count()
ComboCount(t) ==
    IF \E r \in 1..NumRows(t) : Unorderable(Row(t, r))
    THEN [ok |-> FALSE, err |-> "TypeError", val |-> << >>]
    ELSE [ok |-> TRUE, err |-> "",
          val |-> ValueCounts([r \in 1..NumRows(t) |-> ComboKey(Row(t, r))])]

\* Analyzer.permutation_count()
PermutationCount(t) ==
    [ok |-> TRUE, err |-> "",
     val |-> ValueCounts([r \in 1..NumRows(t) |-> Row(t, r)])]

\* ------------------------------------------------------------------ inputs

IntDie == <<IntFace(1), IntFace(2)>>

StrDie == <<StrFace(1), StrFace(2)>>

\* A die of one face, "a".
OneFaceDie == <<StrFace(1)>>

\* The face arguments of change_weight; IntFace(9) is on no die.
FaceArgs == {IntFace(1), IntFace(2), IntFace(3), StrFace(1), StrFace(2), IntFace(9)}

\* The new_weight arguments tried on a lone die.
WeightArgs ==
    {RawInt(0), RawInt(2), RawInt(-1), RawStr("2"), RawStr("-1"),
     RawStr("abc"), RawNaN, RawNone}

\* The (face, new_weight) arguments of change_weight tried on the dice of a
\* game: 0 and 1 for every face, and an unknown face, a negative weight and a
\* weight that is no number.
GameWeightArgs ==
    ({IntFace(1), IntFace(2), StrFace(1)} \X {RawInt(0), RawInt(1)})
    \cup {<<IntFace(9), RawInt(1)>>, <<IntFace(1), RawInt(-1)>>,
          <<StrFace(1), RawInt(-1)>>, <<IntFace(1), RawStr("abc")>>,
          <<StrFace(1), RawNone>>}

\* The num_rolls arguments of a roll of one die of a game.
GameRollArgs == {RawInt(0), RawInt(1), RawStr("2")}

\* The num_rolls arguments of play: every int from 0 to MaxRolls, and a str.
PlayArgs == {RawInt(n) : n \in 0..MaxRolls} \cup {RawStr("2")}

\* The num_rolls arguments: every int from -1 to MaxRolls, and a str.
RollArgs == {RawInt(n) : n \in (-1)..MaxRolls} \cup {RawStr("2")}

\* The form arguments of Game.show.
Forms == {"wide", "narrow", "long"}

\* The faces arguments of Die(...): arrays, one with a repeated face, and a
\* plain list.
FaceArrays ==
    {[nd |-> TRUE, items |-> a] :
        a \in {<< >>, IntDie, StrDie, <<IntFace(1), IntFace(2), IntFace(3)>>,
               <<IntFace(1), IntFace(1)>>}}
    \cup {[nd |-> FALSE, items |-> IntDie]}

\* Die(np.array(items)) for an array it accepts.
NewDie(items) == DieInit([nd |-> TRUE, items |-> items]).die

\* The dice_list arguments of Game(...).
GameLists ==
    {[list |-> TRUE, items |-> ds] :
        ds \in {<< >>, <<NewDie(IntDie)>>, <<NewDie(IntDie), NewDie(OneFaceDie)>>}}
    \cup {[list |-> FALSE, items |-> <<NewDie(IntDie)>>]}

\* ----------------------------------------------------------------- actions

\* dice[i].change_weight(face, new_weight)
ChangeWeight(i, face, new_weight) ==
    LET r == DieChangeWeight(dice[i], face, new_weight) IN
    /\ dice' = [dice EXCEPT ![i] = r.die]
    /\ ret' = Ret("change_weight", r.ok, r.err,
                  [die |-> i, face |-> face, w |-> new_weight], << >>)
    /\ UNCHANGED <<results, analyzer, lastN>>

\* dice[i].roll(num_rolls)
Roll(i, num_rolls) ==
    \E us \in Draws(dice[i], num_rolls) :
        LET r == DieRoll(dice[i], num_rolls, us) IN
        /\ ret' = Ret("roll", r.ok, r.err, [die |-> i, n |-> num_rolls], r.val)
        /\ UNCHANGED <<dice, results, analyzer, lastN>>

\* dice[i].show()
ShowDie(i) ==
    /\ ret' = Ret("die_show", TRUE, "", [die |-> i], DieShow(dice[i]))
    /\ UNCHANGED <<dice, results, analyzer, lastN>>

\* game.play(num_rolls)
Play(num_rolls) ==
    \E draws \in PlayDraws(dice, num_rolls, Len(dice)) :
        LET r == GamePlay(dice, results, num_rolls, draws) IN
        /\ results' = r.results
        /\ lastN' = IF r.ok THEN num_rolls.v ELSE lastN
        /\ ret' = Ret("play", r.ok, r.err, [n |-> num_rolls], << >>)
        /\ UNCHANGED <<dice, analyzer>>

\* game.show(form)
Show(form) ==
    LET r == GameShow(results, form) IN
    /\ ret' = Ret("show", r.ok, r.err, [form |-> form], r.val)
    /\ UNCHANGED <<dice, results, analyzer, lastN>>

\* Analyzer(game), or Analyzer(x) for an x that is no Game.
NewAnalyzer(isGame) ==
    LET r == AnalyzerInit(isGame, results) IN
    /\ analyzer' = IF r.ok THEN r.results ELSE analyzer
    /\ ret' = Ret("Analyzer", r.ok, r.err, [isGame |-> isGame], << >>)
    /\ UNCHANGED <<dice, results, lastN>>

\* analyzer.jackpot()
CallJackpot ==
    /\ analyzer # None
    /\ ret' = Ret("jackpot", TRUE, "", << >>, Jackpot(SelfResults))
    /\ UNCHANGED <<dice, results, analyzer, lastN>>

\* analyzer.face_counts_per_roll()
CallFaceCounts ==
    /\ analyzer # None
    /\ ret' = Ret("face_counts_per_roll", TRUE, "", << >>,
                  FaceCountsPerRoll(SelfResults))
    /\ UNCHANGED <<dice, results, analyzer, lastN>>

\* analyzer.combo_count()
CallComboCount ==
    /\ analyzer # None
    /\ LET r == ComboCount(SelfResults) IN
       ret' = Ret("combo_count", r.ok, r.err, << >>, r.val)
    /\ UNCHANGED <<dice, results, analyzer, lastN>>

\* analyzer.permutation_count()
CallPermutationCount ==
    /\ analyzer # None
    /\ LET r == PermutationCount(SelfResults) IN
       ret' = Ret("permutation_count", r.ok, r.err, << >>, r.val)
    /\ UNCHANGED <<dice, results, analyzer, lastN>>

\* ---------------------------------------------------------- specifications

\* A game right after Game(dice_list) returned, its dice freshly built.
Init ==
    \E dl \in GameLists :
        LET g == GameInit(dl) IN
        /\ g.ok
        /\ dice = g.dice
        /\ results = g.results
        /\ analyzer = None
        /\ lastN = 0
        /\ ret = Ret("Game", TRUE, "", << >>, << >>)

Next ==
    \/ \E i \in 1..Len(dice), a \in GameWeightArgs : ChangeWeight(i, a[1], a[2])
    \/ \E i \in 1..Len(dice), n \in GameRollArgs : Roll(i, n)
    \/ \E n \in PlayArgs : Play(n)
    \/ \E form \in Forms : Show(form)
    \/ \E isGame \in BOOLEAN : NewAnalyzer(isGame)
    \/ CallJackpot
    \/ CallFaceCounts
    \/ CallComboCount
    \/ CallPermutationCount

Spec == Init /\ [][Next]_vars

\* A lone die right after Die(faces) returned.
InitDie ==
    \E fa \in FaceArrays :
        LET d == DieInit(fa) IN
        /\ d.ok
        /\ dice = <<d.die>>
        /\ results = None
        /\ analyzer = None
        /\ lastN = 0
        /\ ret = Ret("Die", TRUE, "", << >>, << >>)

NextDie ==
    \/ \E face \in FaceArgs, w \in WeightArgs : ChangeWeight(1, face, w)
    \/ \E n \in RollArgs : Roll(1, n)
    \/ ShowDie(1)

SpecDie == InitDie /\ [][NextDie]_vars

\* The tables a play of n rolls can leave: column i any n faces of die i.
RECURSIVE Tables(_, _, _)
Tables(ds, n, i) ==
    IF i = 0 THEN {<< >>}
    ELSE {Append(t, c) : t \in Tables(ds, n, i - 1),
                         c \in [1..n -> Elems(ds[i].faces)]}

\* The dice lists of d dice tried: k numeric dice, then d - k dice of strings.
DiceLists(d) ==
    {[i \in 1..d |-> IF i <= k THEN NewDie(IntDie) ELSE NewDie(StrDie)] : k \in 0..d}

\* An analyzer right after game.play(n) and Analyzer(game) returned.
InitAnalyzer ==
    \E d \in 1..MaxDice, n \in 1..MaxRolls :
        \E ds \in DiceLists(d) :
            \E t \in Tables(ds, n, d) :
                /\ dice = ds
                /\ results = t
                /\ analyzer = AnalyzerInit(TRUE, t).results
                /\ lastN = n
                /\ ret = Ret("Analyzer", TRUE, "", [isGame |-> TRUE], << >>)

NextAnalyzer ==
    \/ CallJackpot
    \/ CallFaceCounts
    \/ CallComboCount
    \/ CallPermutationCount

SpecAnalyzer == InitAnalyzer /\ [][NextAnalyzer]_vars

\* ------------------------------------------------------------------ claims

\* The sum of the first j entries of a sequence of numbers.
RECURSIVE SumSeq(_, _)
SumSeq(s, j) == IF j = 0 THEN 0 ELSE SumSeq(s, j - 1) + s[j]

\* The sum of the values of a table of counts over the keys ks.
RECURSIVE SumCounts(_, _)
SumCounts(f, ks) ==
    IF ks = {} THEN 0
    ELSE LET k == CHOOSE x \in ks : TRUE IN f[k] + SumCounts(f, ks \ {k})

\* How many entries of the sequence s equal v.
Occurrences(s, v) == Cardinality({i \in 1..Len(s) : s[i] = v})

\* Two sequences hold the same values the same number of times each.
SameMultiset(a, b) ==
    \A v \in Elems(a) \cup Elems(b) : Occurrences(a, v) = Occurrences(b, v)

\* Every weight of the die is a number greater than or equal to 0.
WeightsNonNegative(die) ==
    \A i \in 1..Len(die.weight) : FGe(die.weight[i], F(0))

\* C1: whenever a results table exists it has exactly lastN rows, lastN the
\* num_rolls of the latest successful play, one column per die of the game,
\* and every cell of column i is a face of the die at position i.
C1_TableShape ==
    results # None =>
        /\ Len(results) = Len(dice)
        /\ \A i \in 1..Len(dice) :
               /\ Len(results[i]) = lastN
               /\ \A r \in 1..Len(results[i]) :
                      results[i][r] \in Elems(dice[i].faces)

\* C1 witness: a two-dice table of two rolls is still there right after a
\* play that failed.
C1_Witness ==
    /\ results # None
    /\ Len(dice) = 2
    /\ lastN = 2
    /\ ret.op = "play"
    /\ ~ret.ok

\* C2: once an analyzer exists, no play and no change_weight changes what
\* jackpot, face_counts_per_roll, combo_count and permutation_count return.
C2_SnapshotIsolated ==
    [][(analyzer # None /\ ret'.op \in {"play", "change_weight", "roll"}) =>
          \/ SelfResults' = SelfResults
          \/ /\ Jackpot(SelfResults') = Jackpot(SelfResults)
             /\ FaceCountsPerRoll(SelfResults') = FaceCountsPerRoll(SelfResults)
             /\ ComboCount(SelfResults') = ComboCount(SelfResults)
             /\ PermutationCount(SelfResults') = PermutationCount(SelfResults)]_vars

\* C2 witness: an analyzer method has returned after the game had replaced
\* the table the analyzer was built from.
C2_Witness ==
    /\ analyzer # None
    /\ results # analyzer
    /\ ret.op = "jackpot"

\* C3: a call that raises leaves every die's faces and weights, the game's
\* results table (or its absence) and the analyzer's snapshot as they were.
C3_FailureChangesNothing ==
    [][~ret'.ok => dice' = dice /\ results' = results /\ analyzer' = analyzer]_vars

\* C3 witness: a play has failed at the second die, the first one having
\* rolled, while a table of an earlier play was there.
C3_Witness ==
    /\ ret.op = "play"
    /\ ~ret.ok
    /\ ValidRolls(ret.arg.n)
    /\ results # None
    /\ Len(dice) = 2
    /\ ~ChoiceFails(dice[1])
    /\ ChoiceFails(dice[2])

\* C4: a roll(n) that returns gives exactly n outcomes, each a face of the
\* die whose weight at that time is greater than 0.
C4_RollOutcomes ==
    (ret.op = "roll" /\ ret.ok) =>
        /\ Len(ret.val) = ret.arg.n.v
        /\ \A j \in 1..Len(ret.val) :
               \E i \in 1..Len(dice[ret.arg.die].faces) :
                   /\ dice[ret.arg.die].faces[i] = ret.val[j]
                   /\ FLt(F(0), dice[ret.arg.die].weight[i])

\* C4 witness: two outcomes were rolled on a die whose first face has weight
\* 0 and whose other weights differ.
C4_Witness ==
    /\ ret.op = "roll"
    /\ ret.ok
    /\ Len(ret.val) = 2
    /\ Len(dice[1].faces) = 3
    /\ dice[1].weight[1] = F(0)
    /\ dice[1].weight[2] = F(2)
    /\ dice[1].weight[3] = F(1)

\* C5: a change_weight(face, w) that returns sets the weight of face to w and
\* leaves the faces and every other weight alone, the same call once more
\* would leave the die as it is, and roll changes no die.
C5_ChangeWeightFrame ==
    [][/\ (ret'.op = "change_weight" /\ ret'.ok) =>
             LET i == ret'.arg.die
                 k == FaceRow(dice[i], ret'.arg.face)
             IN  /\ dice'[i].faces = dice[i].faces
                 /\ dice'[i].weight[k] = ToFloat(ret'.arg.w).val
                 /\ \A j \in 1..Len(dice[i].faces) :
                        j # k => dice'[i].weight[j] = dice[i].weight[j]
                 /\ \A j \in 1..Len(dice) : j # i => dice'[j] = dice[j]
                 /\ DieChangeWeight(dice'[i], ret'.arg.face, ret'.arg.w).ok
                 /\ DieChangeWeight(dice'[i], ret'.arg.face, ret'.arg.w).die = dice'[i]
       /\ ret'.op = "roll" => dice' = dice]_vars

\* C5 witness: the middle face of a three-faced die was given weight 2 while
\* its neighbours keep the weights 0 and 1.
C5_Witness ==
    /\ ret.op = "change_weight"
    /\ ret.ok
    /\ ret.arg.face = IntFace(2)
    /\ Len(dice[1].faces) = 3
    /\ dice[1].weight[1] = F(0)
    /\ dice[1].weight[2] = F(2)
    /\ dice[1].weight[3] = F(1)

\* C6: show('wide'), show('narrow') and Analyzer(game) fail exactly as long as
\* no play has succeeded (lastN = 0), failed plays included, and succeed ever
\* after; show with any other form fails always.
C6_ShowNeedsPlay ==
    /\ \A form \in Forms :
           GameShow(results, form).ok <=> (lastN > 0 /\ form \in {"wide", "narrow"})
    /\ AnalyzerInit(TRUE, results).ok <=> lastN > 0
    /\ ret.op = "show" =>
           (ret.ok <=> (lastN > 0 /\ ret.arg.form \in {"wide", "narrow"}))
    /\ (ret.op = "Analyzer" /\ ret.arg.isGame) => (ret.ok <=> lastN > 0)

\* C6 witness: a play has failed on a game that has never played with
\* success.
C6_Witness ==
    /\ ret.op = "play"
    /\ ~ret.ok
    /\ lastN = 0

\* The table of counts val puts every roll of t under exactly one key, the
\* key that is Same as the roll, and counts the rolls under each key.
GroupsRolls(val, t, Same(_, _)) ==
    /\ \A r \in 1..NumRows(t) :
           Cardinality({k \in DOMAIN val : Same(k, Row(t, r))}) = 1
    /\ \A k \in DOMAIN val :
           /\ val[k] >= 1
           /\ val[k] = Cardinality({r \in 1..NumRows(t) : Same(k, Row(t, r))})
    /\ SumCounts(val, DOMAIN val) = NumRows(t)

\* Two rolls show the same outcome die position by die position.
SamePositions(a, b) == a = b

\* C7: face_counts_per_roll returns one row per roll over one column set, the
\* distinct outcomes of the whole snapshot; each cell is the number of dice
\* showing that value in that roll, so every row sums to the number of dice.
C7_FaceCounts ==
    ret.op = "face_counts_per_roll" =>
        LET t == analyzer
            fc == ret.val
            U == UNION {Elems(t[i]) : i \in 1..Len(t)}
        IN  /\ Len(fc.rows) = NumRows(t)
            /\ Elems(fc.columns) = U
            /\ Len(fc.columns) = Cardinality(U)
            /\ \A r \in 1..NumRows(t) :
                   /\ Len(fc.rows[r]) = Len(fc.columns)
                   /\ \A c \in 1..Len(fc.columns) :
                          fc.rows[r][c] =
                              Cardinality({i \in 1..Len(t) : t[i][r] = fc.columns[c]})
                   /\ SumSeq(fc.rows[r], Len(fc.rows[r])) = Len(t)

\* C7 witness: the table of a two-roll snapshot has a cell 0 for a value that
\* first shows in the second roll, and a cell greater than 1.
C7_Witness ==
    /\ ret.op = "face_counts_per_roll"
    /\ Len(ret.val.rows) = 2
    /\ Len(ret.val.columns) >= 2
    /\ \E c \in 1..Len(ret.val.columns) :
           ret.val.rows[1][c] = 0 /\ ret.val.rows[2][c] >= 1
    /\ \E c \in 1..Len(ret.val.columns) : ret.val.rows[1][c] >= 2

C9_Jackpot ==
    ret.op = "jackpot" =>
        LET t == analyzer IN
        /\ ret.val = Cardinality({r \in 1..NumRows(t) :
                          \A i, j \in 1..Len(t) : t[i][r] = t[j][r]})
        /\ ret.val \in 0..NumRows(t)
        /\ Len(t) = 1 => ret.val = NumRows(t)

\* C9 witness: of two rolls of three dice one is a jackpot and the other has
\* its first and last die equal and the middle one different.
C9_Witness ==
    /\ ret.op = "jackpot"
    /\ ret.val = 1
    /\ Len(analyzer) = 3
    /\ NumRows(analyzer) = 2
    /\ analyzer[1][1] = analyzer[3][1]
    /\ analyzer[1][1] # analyzer[2][1]

\* C10: every die has at least one face, one weight per face and every weight
\* greater than or equal to 0, its weights are all 1.0 right after
\* construction, and no call changes its faces.
C10_DieInvariant ==
    /\ [](\A i \in 1..Len(dice) :
             /\ Len(dice[i].faces) >= 1
             /\ Len(dice[i].weight) = Len(dice[i].faces)
             /\ WeightsNonNegative(dice[i])
             /\ ret.op = "Die" =>
                    \A k \in 1..Len(dice[i].weight) : dice[i].weight[k] = F(1))
    /\ [][\A i \in 1..Len(dice) : dice'[i].faces = dice[i].faces]_vars

====
